---- MODULE Spec2Model ----
(***************************************************************************)
(* Model of printipi's Scheduler<Interface> (src/src/scheduler.h): the     *)
(* one-deep event slot, the exit flag, the sleep ceiling and eventLoop,    *)
(* together with the collaborator (Interface) that eventLoop calls into    *)
(* and the driver that calls queue / exitEventLoop / setMaxSleep.          *)
(*                                                                         *)
(* Time is a natural number of EventClockT ticks (milliseconds).  The      *)
(* clock only advances (a) while the collaborator runs (Tick, inside       *)
(* interface.queue or interface.onIdleCpu, or between eventLoop runs) and  *)
(* (b) when SleepT::sleep_until returns (Wake), which is taken to return   *)
(* at its deadline, or at once when the deadline is already past.          *)
(***************************************************************************)
EXTENDS Integers, Sequences, FiniteSets

(* ------------------------------ bounds -------------------------------- *)
\* latest clock value at which the environment still lets time pass by itself
MaxTime == 1
\* number of events the driver offers in one behaviour
MaxOffers == 2
\* number of onIdleCpu calls one eventLoop run may begin
MaxCalls == 3
\* number of eventLoop invocations in one behaviour
MaxRuns == 2
\* largest ceiling the driver configures with setMaxSleep
MaxCeil == 1
\* latest clock value a sleep may end at: one default ceiling after MaxTime
MaxClock == 41
\* fairness runs: onIdleCpu may report "no more work" only in the first MaxLead calls
MaxLead == 2
\* fairness runs: calls made beyond one full period of 2048
MaxExtra == 2
\* scenario A: latest start time of the scenario
MaxStart == 5
\* scenario A: number of onIdleCpu calls of the run
MaxScenarioCalls == 6

(* ------------------------- program constants -------------------------- *)
\* setDefaultMaxSleep: std::chrono::milliseconds(40)
DefaultMaxSleep == 40
\* "after 2048 short intervals, insert a wide interval instead"
Period == 2048
\* the collaborator's translation of a logical event time into a deadline
SchedOffset == 1

OnIdleCpuIntervalShort == "Short"
OnIdleCpuIntervalWide == "Wide"

(* ------------------------------- state -------------------------------- *)
VARIABLES
    MAX_SLEEP,          \* Scheduler::MAX_SLEEP
    nextEvent,          \* Scheduler::nextEvent, the pending slot
    _doExit,            \* Scheduler::_doExit
    now,                \* EventClockT::now()
    pc,                 \* where the thread of eventLoop is
    intervalT,          \* eventLoop's local intervalT
    numShortIntervals,  \* eventLoop's local numShortIntervals
    sleepUntil,         \* sleepUntilEvent's local sleepUntil
    \* observations of the run (not read by the program)
    offered,            \* number of events passed to queue so far (ids 1..offered)
    pending,            \* id of the event offered and neither dispatched nor overwritten, 0 if none
    dispatched,         \* ids of the events interface.queue was invoked with
    overwritten,        \* ids of the events replaced in the slot by a later queue call
    dispatching,        \* << >>, or <<evt, clock>>: the interface.queue call in progress
    calls,              \* onIdleCpu calls begun in this eventLoop run
    runs,               \* eventLoop invocations so far
    shortRun,           \* latest consecutive onIdleCpu calls made with Short that returned true
    exitFrom,           \* where exitEventLoop was first called for the current request
    afterExitIdles,     \* onIdleCpu calls begun in this run with the exit flag set
    afterExitWakes,     \* sleeps ended in this run with the exit flag set
    elevation,          \* outcome of the latest initSchedThread call: "none", "ok", "failed"
    trueRun,            \* latest consecutive true results of onIdleCpu in this run
    schedCalled,        \* whether interface.schedTime was called in this loop iteration
    heldAtReturn,       \* id of the event left in the slot by the last return, 0 if none
    lastRunEmpty        \* whether the run that returned last made no onIdleCpu call

vars == <<MAX_SLEEP, nextEvent, _doExit, now, pc, intervalT, numShortIntervals,
          sleepUntil, offered, pending, dispatched, overwritten, dispatching,
          calls, runs, shortRun, exitFrom, afterExitIdles,
          afterExitWakes, elevation, trueRun, schedCalled, heldAtReturn, lastRunEmpty>>

(* ------------------------------ events -------------------------------- *)
\* OutputEvent(): the distinguished empty event
NullEvent == [id |-> 0, time |-> 0]

isNull(evt) == evt.id = 0

\* Interface::schedTime
schedTime(t) == t + SchedOffset

EventTimes == 0..MaxTime

(* --------------------------- pure helpers ----------------------------- *)
\* Scheduler::isRoomInBuffer
isRoomInBuffer == isNull(nextEvent)

isEventTimeStrict(evt) == schedTime(evt.time) < now
isEventTimeRaw(evt) == evt.time <= now
\* Scheduler::isEventTime
isEventTime(evt) == schedTime(evt.time) <= now

sleepUntilTimeNoClamp(evt) == now + MAX_SLEEP

sleepUntilTimeNoCeiling(evt) ==
    IF ~isNull(evt) THEN schedTime(evt.time) ELSE now + MAX_SLEEP
\* Scheduler::sleepUntilEvent: the deadline handed to SleepT::sleep_until
sleepUntilTime(evt) ==
    LET ceiling == now + MAX_SLEEP
    IN  IF ~isNull(evt) /\ schedTime(evt.time) < ceiling
        THEN schedTime(evt.time)
        ELSE ceiling

queuedKeepFirst(cur, evt) == IF isNull(cur) THEN evt ELSE cur
\* Scheduler::queue: the slot's content after queue(evt)
queued(cur, evt) == evt

intervalAfterTruePostIncrement(n) ==
    IF (n - 1) % Period # 0 THEN OnIdleCpuIntervalShort
    ELSE OnIdleCpuIntervalWide
\* the interval class chosen after onIdleCpu returned true, from the
\* incremented counter
intervalAfterTrue(n) ==
    IF n % Period # 0 THEN OnIdleCpuIntervalShort ELSE OnIdleCpuIntervalWide

intervalAfterSleepShort == OnIdleCpuIntervalShort
\* the interval class set after sleepUntilEvent returned
intervalAfterSleep == OnIdleCpuIntervalWide

slotAfterDispatchKept(evt) == evt
\* the slot after interface.queue(nextEvent) returned
slotAfterDispatch(evt) == NullEvent

loopConditionBreakOnly == TRUE
\* eventLoop's loop condition, while (!_doExit)
loopCondition == ~_doExit

breakToSleep == FALSE
\* onIdleCpu returned false: whether the loop is left before sleeping
breakBeforeSleep == _doExit

exitFlagOnReturnKept == _doExit
\* the exit flag as eventLoop leaves it
exitFlagOnReturn == FALSE

\* whether the dispatch check calls interface.schedTime: isEventTime is
\* evaluated, and calls it once, only when the slot is not empty
schedTimeInCheck == ~isNull(nextEvent)

schedTimeInSleepNever == FALSE
\* whether sleepUntilEvent calls interface.schedTime: only for a non-empty
\* event
schedTimeInSleep == ~isNull(nextEvent)

slotOnReturnCleared == NullEvent
\* the slot as eventLoop leaves it when it returns: not written after the loop
slotOnReturn == nextEvent

(* ------------------------------- Init --------------------------------- *)
\* Scheduler::Scheduler, before anything else was called
Init ==
    /\ MAX_SLEEP = DefaultMaxSleep
    /\ nextEvent = NullEvent
    /\ _doExit = FALSE
    /\ now = 0
    /\ pc = "stopped"
    /\ intervalT = OnIdleCpuIntervalWide
    /\ numShortIntervals = 0
    /\ sleepUntil = 0
    /\ offered = 0
    /\ pending = 0
    /\ dispatched = {}
    /\ overwritten = {}
    /\ dispatching = << >>
    /\ calls = 0
    /\ runs = 0
    /\ shortRun = 0
    /\ exitFrom = "none"
    /\ afterExitIdles = 0
    /\ afterExitWakes = 0
    /\ elevation = "none"
    /\ trueRun = 0
    /\ schedCalled = FALSE
    /\ heldAtReturn = 0
    /\ lastRunEmpty = FALSE

(* --------------------- the driver and the collaborator ---------------- *)
obsVars == <<offered, pending, dispatched, overwritten, dispatching, calls,
             runs, shortRun, exitFrom, afterExitIdles, afterExitWakes,
             trueRun,
             schedCalled,
             heldAtReturn,
             lastRunEmpty>>

\* eventLoop is not running, and the bound on runs lets another run follow
BetweenRuns == pc = "stopped" /\ runs < MaxRuns

\* where the driver may call into the Scheduler: between eventLoop runs, and
\* from inside interface.onIdleCpu (the thread of eventLoop itself)
DriverPlace == BetweenRuns \/ pc = "idle"

\* Scheduler::queue(evt), with a fresh non-empty event whose logical time is
\* drawn from times
OfferAt(times) ==
    /\ DriverPlace
    /\ offered < MaxOffers
    /\ \E t \in times :
          LET evt == [id |-> offered + 1, time |-> t]
          IN  /\ nextEvent' = queued(nextEvent, evt)
              /\ pending' = evt.id
    /\ offered' = offered + 1
    /\ overwritten' = IF isNull(nextEvent) THEN overwritten
                      ELSE overwritten \cup {nextEvent.id}
    /\ heldAtReturn' = 0
    /\ UNCHANGED <<elevation, lastRunEmpty, schedCalled, trueRun, MAX_SLEEP,
                   _doExit, now, pc, intervalT, numShortIntervals,
                   sleepUntil, dispatched, dispatching, calls, runs,
                   shortRun, exitFrom, afterExitIdles, afterExitWakes>>

\* Scheduler::setMaxSleep(duration): configuration, done between eventLoop runs
SetMaxSleep ==
    /\ BetweenRuns
    /\ \E d \in 1..MaxCeil : d # MAX_SLEEP /\ MAX_SLEEP' = d
    /\ UNCHANGED <<elevation, nextEvent, _doExit, now, pc, intervalT,
                   numShortIntervals, sleepUntil>>
    /\ UNCHANGED obsVars

exitFlagAfterElevationAbort(ok) == IF ok THEN _doExit ELSE TRUE
\* the exit flag after initSchedThread, whose platform call succeeded or not
exitFlagAfterElevation(ok) == _doExit

\* Scheduler::initSchedThread, called by the thread that is about to call
\* eventLoop: pthread_setschedparam succeeds or fails, the outcome is logged,
\* and the method returns
InitSchedThread ==
    /\ BetweenRuns
    /\ \E ok \in BOOLEAN :
          /\ elevation' = IF ok THEN "ok" ELSE "failed"
          /\ _doExit' = exitFlagAfterElevation(ok)
    /\ UNCHANGED <<MAX_SLEEP, nextEvent, now, pc, intervalT,
                   numShortIntervals, sleepUntil>>
    /\ UNCHANGED obsVars

\* Scheduler::exitEventLoop, called between runs, from inside interface.queue,
\* from inside interface.onIdleCpu, or while eventLoop sleeps
Cancel ==
    /\ BetweenRuns \/ pc \in {"dispatch", "idle", "sleep"}
    /\ _doExit' = TRUE
    /\ exitFrom' = IF exitFrom = "none" THEN pc ELSE exitFrom
    /\ UNCHANGED <<elevation, lastRunEmpty, heldAtReturn, schedCalled,
                   trueRun, MAX_SLEEP, nextEvent, now, pc, intervalT,
                   numShortIntervals, sleepUntil, offered, pending,
                   dispatched, overwritten, dispatching, calls, runs,
                   shortRun, afterExitIdles, afterExitWakes>>

\* the clock advances while the collaborator runs or no loop is running
TickUpTo(limit) ==
    /\ BetweenRuns \/ pc \in {"dispatch", "idle"}
    /\ now < limit
    /\ now' = now + 1
    /\ UNCHANGED <<elevation, MAX_SLEEP, nextEvent, _doExit, pc, intervalT,
                   numShortIntervals, sleepUntil>>
    /\ UNCHANGED obsVars

(* ------------------------------ eventLoop ----------------------------- *)
\* eventLoop is entered: its locals are initialised
StartLoop ==
    /\ BetweenRuns
    /\ pc' = "top"
    /\ intervalT' = OnIdleCpuIntervalWide
    /\ numShortIntervals' = 0
    /\ runs' = runs + 1
    /\ calls' = 0
    /\ shortRun' = 0
    /\ afterExitIdles' = 0
    /\ afterExitWakes' = 0
    /\ trueRun' = 0
    /\ schedCalled' = FALSE
    /\ UNCHANGED <<elevation, lastRunEmpty, heldAtReturn, MAX_SLEEP,
                   nextEvent, _doExit, now, sleepUntil, offered, pending,
                   dispatched, overwritten, dispatching, exitFrom>>

\* what eventLoop does after its loop: the flag is reset and it returns
\* (its locals go out of scope, and the observations of the run end with it)
Return ==
    /\ pc' = "stopped"
    /\ _doExit' = exitFlagOnReturn
    /\ nextEvent' = slotOnReturn
    /\ intervalT' = OnIdleCpuIntervalWide
    /\ numShortIntervals' = 0
    /\ exitFrom' = "none"
    /\ calls' = 0
    /\ shortRun' = 0
    /\ afterExitIdles' = 0
    /\ afterExitWakes' = 0
    /\ trueRun' = 0
    /\ schedCalled' = FALSE
    /\ heldAtReturn' = nextEvent'.id
    /\ lastRunEmpty' = (calls = 0)

\* while (!_doExit) fails: eventLoop returns
LoopExit ==
    /\ pc = "top"
    /\ ~loopCondition
    /\ Return
    /\ UNCHANGED <<elevation, MAX_SLEEP, now, sleepUntil, offered, pending,
                   dispatched, overwritten, dispatching, runs>>

\* the pending event is due: interface.queue(nextEvent) is invoked
DispatchCallUpTo(callLimit) ==
    /\ pc = "top"
    /\ loopCondition
    /\ calls < callLimit
    /\ ~isNull(nextEvent) /\ isEventTime(nextEvent)
    /\ pc' = "dispatch"
    /\ dispatched' = dispatched \cup {nextEvent.id}
    /\ dispatching' = <<nextEvent, now>>
    /\ schedCalled' = schedTimeInCheck
    /\ UNCHANGED <<elevation, lastRunEmpty, heldAtReturn, trueRun, MAX_SLEEP,
                   nextEvent, _doExit, now, intervalT, numShortIntervals,
                   sleepUntil, offered, pending, overwritten, calls, runs,
                   shortRun, exitFrom, afterExitIdles, afterExitWakes>>

EnterIdleSkipped ==
    /\ pc' = "top"
    /\ calls' = calls
    /\ afterExitIdles' = afterExitIdles
\* interface.onIdleCpu(intervalT) is entered
EnterIdle ==
    /\ pc' = "idle"
    /\ calls' = calls + 1
    /\ afterExitIdles' = IF _doExit THEN afterExitIdles + 1 ELSE afterExitIdles

\* interface.queue returned: the slot is reset and onIdleCpu is called
DispatchReturn ==
    /\ pc = "dispatch"
    /\ nextEvent' = slotAfterDispatch(nextEvent)
    /\ pending' = 0
    /\ dispatching' = << >>
    /\ EnterIdle
    /\ heldAtReturn' = 0
    /\ UNCHANGED <<elevation, lastRunEmpty, schedCalled, trueRun, MAX_SLEEP,
                   _doExit, now, intervalT, numShortIntervals, sleepUntil,
                   offered, dispatched, overwritten, runs, shortRun,
                   exitFrom, afterExitWakes>>

\* no event is due: onIdleCpu is called
IdleCallUpTo(callLimit) ==
    /\ pc = "top"
    /\ loopCondition
    /\ calls < callLimit
    /\ ~(~isNull(nextEvent) /\ isEventTime(nextEvent))
    /\ EnterIdle
    /\ schedCalled' = schedTimeInCheck
    /\ UNCHANGED <<elevation, lastRunEmpty, heldAtReturn, trueRun, MAX_SLEEP,
                   nextEvent, _doExit, now, intervalT, numShortIntervals,
                   sleepUntil, offered, pending, dispatched, overwritten,
                   dispatching, runs, shortRun, exitFrom, afterExitWakes>>

\* onIdleCpu returned true: the counter is incremented and the next interval
\* class chosen
IdleReturnTrue ==
    /\ pc = "idle"
    /\ numShortIntervals' = numShortIntervals + 1
    /\ intervalT' = intervalAfterTrue(numShortIntervals')
    /\ shortRun' = IF intervalT = OnIdleCpuIntervalShort THEN shortRun + 1 ELSE 0
    /\ pc' = "top"
    /\ trueRun' = trueRun + 1
    /\ schedCalled' = FALSE
    /\ UNCHANGED <<elevation, lastRunEmpty, heldAtReturn, MAX_SLEEP,
                   nextEvent, _doExit, now, sleepUntil, offered, pending,
                   dispatched, overwritten, dispatching, calls, runs,
                   exitFrom, afterExitIdles, afterExitWakes>>

\* onIdleCpu returned false with the exit flag set: break, then return
IdleBreak ==
    /\ pc = "idle"
    /\ breakBeforeSleep
    /\ Return
    /\ UNCHANGED <<elevation, MAX_SLEEP, now, sleepUntil, offered, pending,
                   dispatched, overwritten, dispatching, runs>>

\* onIdleCpu returned false: sleepUntilEvent(nextEvent) computes its deadline
\* and enters SleepT::sleep_until
SleepStartUpTo(sleepCallLimit) ==
    /\ pc = "idle"
    /\ ~breakBeforeSleep
    /\ calls <= sleepCallLimit
    /\ sleepUntil' = sleepUntilTime(nextEvent)
    /\ shortRun' = 0
    /\ pc' = "sleep"
    /\ trueRun' = 0
    /\ schedCalled' = (schedCalled \/ schedTimeInSleep)
    /\ UNCHANGED <<elevation, lastRunEmpty, heldAtReturn, MAX_SLEEP,
                   nextEvent, _doExit, now, intervalT, numShortIntervals,
                   offered, pending, dispatched, overwritten, dispatching,
                   calls, runs, exitFrom, afterExitIdles, afterExitWakes>>

\* SleepT::sleep_until returned; the next interval is a wide one
Wake ==
    /\ pc = "sleep"
    /\ now' = IF sleepUntil > now THEN sleepUntil ELSE now
    /\ intervalT' = intervalAfterSleep
    /\ afterExitWakes' = IF _doExit THEN afterExitWakes + 1 ELSE afterExitWakes
    /\ sleepUntil' = 0
    /\ pc' = "top"
    /\ schedCalled' = FALSE
    /\ UNCHANGED <<elevation, lastRunEmpty, heldAtReturn, trueRun, MAX_SLEEP,
                   nextEvent, _doExit, numShortIntervals, offered, pending,
                   dispatched, overwritten, dispatching, calls, runs,
                   shortRun, exitFrom, afterExitIdles>>

Offer == OfferAt(EventTimes)
Tick == TickUpTo(MaxTime)
DispatchCall == DispatchCallUpTo(MaxCalls)
IdleCall == IdleCallUpTo(MaxCalls)
SleepStart ==
    /\ sleepUntilTime(nextEvent) <= MaxClock
    /\ SleepStartUpTo(MaxCalls)

Next ==
    \/ Offer
    \/ SetMaxSleep
    \/ Cancel
    \/ Tick
    \/ StartLoop
    \/ LoopExit
    \/ DispatchCall
    \/ DispatchReturn
    \/ IdleCall
    \/ IdleReturnTrue
    \/ IdleBreak
    \/ SleepStart
    \/ Wake

Spec == Init /\ [][Next]_vars

(* eventLoop's own steps are taken as long as they are possible: the thread *)
(* of eventLoop keeps running, and interface.queue, interface.onIdleCpu and *)
(* SleepT::sleep_until each return.                                         *)
IdleReturn == IdleReturnTrue \/ IdleBreak \/ SleepStart

LoopFairness ==
    /\ WF_vars(LoopExit)
    /\ WF_vars(DispatchCall)
    /\ WF_vars(DispatchReturn)
    /\ WF_vars(IdleCall)
    /\ WF_vars(IdleReturn)
    /\ WF_vars(Wake)

SpecLive == Spec /\ LoopFairness

(* ------------------------ a run that is not cancelled ------------------ *)
(* exitEventLoop is never called, so eventLoop does not return; its steps   *)
(* and its collaborator's returns are taken as long as they are possible.   *)
NextRun ==
    \/ Offer
    \/ SetMaxSleep
    \/ Tick
    \/ StartLoop
    \/ DispatchCall
    \/ DispatchReturn
    \/ IdleCall
    \/ IdleReturnTrue
    \/ SleepStart
    \/ Wake

SpecRun == Init /\ [][NextRun]_vars /\ LoopFairness

(* ------------------ with the priority elevation ------------------------ *)
NextPrio ==
    \/ InitSchedThread
    \/ Next

SpecPrio == Init /\ [][NextPrio]_vars

(* ------------------- the interval classes over a long run -------------- *)
(* One eventLoop run of up to Period + MaxExtra onIdleCpu calls, in which   *)
(* the collaborator reports "no more work" only in its first MaxLead calls. *)
FairIdleCall == IdleCallUpTo(Period + MaxExtra)
FairSleepStart == SleepStartUpTo(MaxLead)

NextFair ==
    \/ StartLoop
    \/ FairIdleCall
    \/ IdleReturnTrue
    \/ FairSleepStart
    \/ Wake

SpecFair == Init /\ [][NextFair]_vars

(* ------------------------------ scenario A ----------------------------- *)
(* The ceiling is the default one; at some time start the driver offers one *)
(* event due 100 ticks later and calls eventLoop; onIdleCpu always returns  *)
(* false, and neither it nor interface.queue takes any time.                *)
ScenarioTick == offered = 0 /\ TickUpTo(MaxStart)
ScenarioOffer ==
    /\ pc = "stopped"
    /\ offered = 0
    /\ OfferAt({now + 100 - SchedOffset})
ScenarioStartLoop == offered = 1 /\ StartLoop
ScenarioIdleCall == IdleCallUpTo(MaxScenarioCalls)
ScenarioDispatchCall == DispatchCallUpTo(MaxScenarioCalls)
ScenarioSleepStart == SleepStartUpTo(MaxScenarioCalls)

NextA ==
    \/ ScenarioTick
    \/ ScenarioOffer
    \/ ScenarioStartLoop
    \/ ScenarioIdleCall
    \/ ScenarioDispatchCall
    \/ DispatchReturn
    \/ ScenarioSleepStart
    \/ Wake

SpecA == Init /\ [][NextA]_vars

(* =============================== claims ================================ *)
Running == pc # "stopped"

\* the deadline of an event
Deadline(evt) == schedTime(evt.time)

(* C1: no early dispatch.  Whenever interface.queue is being invoked, its    *)
(* argument is a non-empty event that was offered through queue, and the     *)
(* clock value at the invocation is at or after schedTime of its time.       *)
NoEarlyDispatch ==
    Len(dispatching) = 2 =>
        /\ ~isNull(dispatching[1])
        /\ dispatching[1].id \in 1..offered
        /\ Deadline(dispatching[1]) <= dispatching[2]

\* an event offered for a later time is dispatched in a later iteration,
\* exactly at its deadline
NoEarlyDispatchWitness ==
    /\ pc = "dispatch"
    /\ calls >= 1
    /\ dispatching[2] = Deadline(dispatching[1])

(* C2: single-slot invariant.  isRoomInBuffer is true exactly when no event  *)
(* that was offered is still waiting (neither dispatched nor replaced).      *)
SingleSlot == isRoomInBuffer <=> (pending = 0)

\* an event was dispatched, and onIdleCpu now sees room in the buffer
SingleSlotWitness ==
    /\ pc = "idle"
    /\ dispatched # {}
    /\ pending = 0
    /\ isRoomInBuffer

(* C3: fairness bound.  Within one eventLoop run there are never 2048        *)
(* consecutive onIdleCpu calls that all returned true and were all made      *)
(* with the Short interval class.                                            *)
FairnessBound == shortRun < Period

\* after a false result and its sleep, a window of 2048 consecutive true
\* results has just ended: its first call was Wide, the other 2047 Short
FairnessBoundWitness ==
    /\ calls = numShortIntervals + 1
    /\ numShortIntervals = Period
    /\ shortRun = Period - 1

(* C4: bounded cancellation latency.  While a run is still executing with    *)
(* the exit flag set, at most one onIdleCpu call has begun and at most one   *)
(* sleep has ended since the flag was set, and a sleep in progress lasts no  *)
(* longer than MAX_SLEEP.                                                    *)
CancelLatency ==
    (Running /\ _doExit) =>
        /\ afterExitIdles <= 1
        /\ afterExitWakes <= 1
        /\ (pc = "sleep" => sleepUntil - now <= MAX_SLEEP)

\* exitEventLoop was called inside interface.queue; one more onIdleCpu call
\* is running
CancelLatencyWitness ==
    /\ exitFrom = "dispatch"
    /\ pc = "idle"
    /\ afterExitIdles = 1

ScenarioA ==
    Running =>
        /\ (calls <= 2 \/ (calls = 3 /\ pc \in {"idle", "sleep"}))
              => /\ dispatched = {}
                 /\ ~isNull(nextEvent)
        /\ (pc = "top" /\ calls = 1)
              => now = Deadline(nextEvent) - 100 + DefaultMaxSleep
        /\ (pc = "top" /\ calls = 2)
              => now = Deadline(nextEvent) - 100 + 2 * DefaultMaxSleep
        /\ (pc = "top" /\ calls = 3)
              => now = Deadline(nextEvent)
        /\ pc = "dispatch"
              => /\ calls = 3
                 /\ dispatching[2] = Deadline(dispatching[1])
                 /\ dispatching[1].id = 1
        /\ calls >= 4
              => /\ dispatched = {1}
                 /\ isNull(nextEvent)

\* the dispatch of the scenario's event, at its deadline
ScenarioAWitness ==
    /\ pc = "dispatch"
    /\ calls = 3
    /\ now >= 100
    /\ dispatching[2] = Deadline(dispatching[1])

(* C7: cancel from inside an idle slice.  From an exitEventLoop call made    *)
(* inside an onIdleCpu invocation until eventLoop has returned, eventLoop    *)
(* is only in that invocation or at its loop test: it neither sleeps nor     *)
(* dispatches nor calls onIdleCpu again.                                     *)
CancelInIdle ==
    exitFrom = "idle" =>
        /\ pc \in {"idle", "top"}
        /\ afterExitIdles = 0
        /\ afterExitWakes = 0
        /\ Len(dispatching) = 0
        /\ pc = "top" => ~loopCondition

\* the second onIdleCpu invocation called exitEventLoop and returned true
CancelInIdleWitness ==
    /\ exitFrom = "idle"
    /\ pc = "top"
    /\ calls = 2

(* C8: overwrite.  A non-empty slot holds the event of the latest queue      *)
(* call, and an event replaced in the slot by a later queue call is never    *)
(* dispatched.                                                               *)
Overwrite ==
    /\ ~isNull(nextEvent) => nextEvent.id = offered
    /\ overwritten \cap dispatched = {}

\* e1 was replaced by e2 before any dispatch, and e2 is being dispatched
OverwriteWitness ==
    /\ 1 \in overwritten
    /\ pc = "dispatch"
    /\ dispatching[1].id = 2

(* C9: termination on cancel.  A run of eventLoop returns only with the      *)
(* exit flag set, and once exitEventLoop has been called during a run, that  *)
(* run eventually returns.                                                   *)
TerminatesOnCancel ==
    /\ [][(Running /\ pc' = "stopped") => _doExit]_vars
    /\ (Running /\ _doExit) ~> (pc = "stopped")

\* a run that dispatched an event has returned
TerminatesOnCancelWitness ==
    /\ pc = "stopped"
    /\ runs = 1
    /\ dispatched # {}
    /\ ~_doExit

(* C10: restartable exit flag.  The exit flag is set exactly while an        *)
(* exitEventLoop call has not been consumed by a return of eventLoop; so a   *)
(* run entered with no such call outstanding passes its loop test, and has   *)
(* called onIdleCpu at least once when it leaves the loop.                   *)
RestartableFlag ==
    /\ _doExit <=> (exitFrom # "none")
    /\ (pc = "top" /\ _doExit /\ exitFrom # "stopped") => calls >= 1

\* the second run on the same Scheduler is inside onIdleCpu, flag clear
RestartableFlagWitness ==
    /\ runs = 2
    /\ pc = "idle"
    /\ ~_doExit

(* C11: priority elevation is best-effort.  A step that records an outcome   *)
(* of initSchedThread, success or failure, leaves the pending slot, the      *)
(* exit flag, MAX_SLEEP, the clock and the place and locals of eventLoop as  *)
(* they were, and eventLoop can be entered after either outcome.             *)
ElevationBestEffort ==
    /\ [][elevation' # elevation =>
            /\ nextEvent' = nextEvent
            /\ _doExit' = _doExit
            /\ MAX_SLEEP' = MAX_SLEEP
            /\ pc' = pc
            /\ UNCHANGED <<now, intervalT, numShortIntervals, sleepUntil>>]_vars
    /\ [](BetweenRuns => ENABLED StartLoop)

\* eventLoop runs, calling onIdleCpu, after a failed elevation
ElevationBestEffortWitness ==
    /\ elevation = "failed"
    /\ pc = "idle"
    /\ ~_doExit

(* C12: dispatch then clear.  The step in which interface.queue returns      *)
(* empties the slot and is the step that enters the next onIdleCpu call, so  *)
(* that call starts with isRoomInBuffer true; and interface.queue is only    *)
(* ever invoked for an event that was not dispatched before.                 *)
DispatchThenClear ==
    /\ [][pc = "dispatch" /\ pc' # "dispatch" =>
            /\ pc' = "idle"
            /\ calls' = calls + 1
            /\ isRoomInBuffer']_vars
    /\ [][pc # "dispatch" /\ pc' = "dispatch" =>
            /\ ~isNull(nextEvent)
            /\ nextEvent.id \notin dispatched
            /\ dispatched' = dispatched \cup {nextEvent.id}]_vars

\* two events were dispatched one after the other in one run, and the
\* onIdleCpu call after the second dispatch sees room in the buffer
DispatchThenClearWitness ==
    /\ pc = "idle"
    /\ calls = 2
    /\ Cardinality(dispatched) = 2
    /\ isRoomInBuffer

(* C13, as claimed: after a true result the next interval class is Wide      *)
(* exactly when the number of consecutive true results since the last false  *)
(* result, or since the loop started, is a multiple of 2048.                 *)
IntervalClassConsecutive ==
    trueRun >= 1 =>
        (intervalT = OnIdleCpuIntervalWide <=> trueRun % Period = 0)

(* C13, amended: after a true result the next interval class is Wide exactly *)
(* when the number of true results since the loop started, which a false     *)
(* result and its sleep do not reset, is a multiple of 2048.                 *)
IntervalClassAfterTrue ==
    trueRun >= 1 =>
        /\ numShortIntervals >= trueRun
        /\ intervalT = OnIdleCpuIntervalWide <=> numShortIntervals % Period = 0

\* the 2048th true result of a run in which a false result came in between:
\* the next class is Wide after fewer than 2048 consecutive true results
IntervalClassAfterTrueWitness ==
    /\ pc = "top"
    /\ numShortIntervals = Period
    /\ trueRun >= 1
    /\ trueRun < Period
    /\ intervalT = OnIdleCpuIntervalWide

(* C14: Wide after sleep.  An onIdleCpu call in progress has the Short class *)
(* only if the preceding onIdleCpu call of the same run returned true; the   *)
(* first call of a run, and a call whose predecessor returned false (and was *)
(* followed by its sleep), have the Wide class.                              *)
WideAfterSleep ==
    pc = "idle" =>
        /\ calls = 1 => trueRun = 0
        /\ trueRun = 0 => intervalT = OnIdleCpuIntervalWide
        /\ intervalT = OnIdleCpuIntervalShort => calls >= 2 /\ trueRun >= 1

\* the third call of a run: the first returned true, the second (a Short
\* one) returned false and eventLoop slept, and this one is Wide again
WideAfterSleepWitness ==
    /\ pc = "idle"
    /\ calls = 3
    /\ numShortIntervals = 1
    /\ trueRun = 0
    /\ intervalT = OnIdleCpuIntervalWide

(* C15: idle slice every iteration.  From the top of the loop, with the exit *)
(* flag clear, eventLoop goes to onIdleCpu, directly or through one          *)
(* dispatch; from onIdleCpu it goes back to the top, directly or through the *)
(* sleep, or returns.  So every iteration calls onIdleCpu exactly once,      *)
(* after the dispatch check and before the sleep; each dispatch starts at    *)
(* the top of the loop and adds one event, so at most one event is           *)
(* dispatched between two onIdleCpu calls, and none while onIdleCpu runs.    *)
IdleSliceEveryIteration ==
    [][/\ pc = "top" /\ pc' # "top" =>
            /\ pc' \in {"dispatch", "idle", "stopped"}
            /\ pc' = "stopped" <=> _doExit
       /\ pc = "dispatch" /\ pc' # "dispatch" => pc' = "idle"
       /\ pc = "idle" /\ pc' # "idle" => pc' \in {"top", "sleep", "stopped"}
       /\ pc = "sleep" /\ pc' # "sleep" => pc' = "top"
       /\ pc # "idle" /\ pc' = "idle" => calls' = calls + 1
       /\ calls' # calls =>
            \/ pc # "idle" /\ pc' = "idle"
            \/ pc' = "stopped" /\ calls' = 0
       /\ dispatched' # dispatched =>
            /\ pc = "top" /\ pc' = "dispatch"
            /\ Cardinality(dispatched') = Cardinality(dispatched) + 1
       /\ pc = "idle" => dispatched' = dispatched]_vars

\* an event offered from inside the second onIdleCpu call of a run, after a
\* dispatch, is due at once and waits for that call to return
IdleSliceEveryIterationWitness ==
    /\ pc = "idle"
    /\ calls = 2
    /\ dispatched # {}
    /\ ~isNull(nextEvent)
    /\ isEventTime(nextEvent)
    /\ nextEvent.id \notin dispatched

(* C16: sleep only when idle.  A sleep is entered only from an onIdleCpu     *)
(* call, with the exit flag clear, by the step that ends a run of true       *)
(* results (the call returned false); it is never entered from the top of    *)
(* the loop or from a dispatch, and among eventLoop's own steps only the end *)
(* of a sleep lets the clock advance.                                        *)
SleepOnlyWhenIdle ==
    [][/\ pc # "sleep" /\ pc' = "sleep" =>
            /\ pc = "idle"
            /\ ~_doExit
            /\ trueRun' = 0
            /\ numShortIntervals' = numShortIntervals
       /\ pc = "idle" /\ numShortIntervals' > numShortIntervals => pc' = "top"
       /\ pc' # pc /\ now' # now => pc = "sleep"]_vars

\* eventLoop sleeps after its second onIdleCpu call returned false, the
\* first one having returned true
SleepOnlyWhenIdleWitness ==
    /\ pc = "sleep"
    /\ ~_doExit
    /\ calls = 2
    /\ numShortIntervals = 1

(* C17, as claimed: schedTime is called at least once in every loop          *)
(* iteration during which a pending event exists, also when the event is     *)
(* offered from inside onIdleCpu and onIdleCpu returns true: an iteration    *)
(* that ends with an event in the slot has called schedTime.                 *)
SchedTimeEveryIteration ==
    [][pc' = "top" /\ pc \in {"idle", "sleep"} /\ ~isNull(nextEvent) =>
            schedCalled]_vars

(* C17, amended: schedTime is called at least once in every loop iteration   *)
(* that starts with an event in the slot (by the dispatch check) and in      *)
(* every iteration that sleeps with an event in the slot (by                 *)
(* sleepUntilEvent); an iteration that starts with an empty slot calls it    *)
(* only if it sleeps with an event offered inside onIdleCpu.                 *)
SchedTimeCalled ==
    /\ [][pc = "top" /\ pc' \in {"dispatch", "idle"} =>
            (schedCalled' <=> ~isNull(nextEvent))]_vars
    /\ [][pc = "dispatch" => schedCalled /\ schedCalled']_vars
    /\ [][pc = "idle" /\ pc' = "sleep" =>
            (schedCalled' <=> (schedCalled \/ ~isNull(nextEvent)))]_vars
    /\ [][pc = "sleep" /\ pc' = "top" /\ ~isNull(nextEvent) => schedCalled]_vars

\* an iteration that started with an empty slot sleeps with an event that
\* was offered inside its onIdleCpu call: sleepUntilEvent called schedTime
SchedTimeCalledWitness ==
    /\ pc = "sleep"
    /\ calls = 1
    /\ runs = 1
    /\ offered = 1
    /\ overwritten = {}
    /\ dispatched = {}
    /\ ~isNull(nextEvent)
    /\ now < Deadline(nextEvent)
    /\ schedCalled

(* C18, as claimed: once the clock has reached the deadline of the pending   *)
(* event, the next step from the top of the loop is its dispatch, so no      *)
(* further onIdleCpu call begins before it; a sleep lasts at most MAX_SLEEP; *)
(* and a sleep entered with the event pending never ends later than the      *)
(* event's deadline.                                                         *)
DispatchLatenessSleepByDeadline ==
    /\ [][pc = "top" /\ pc' # "top" /\ ~isNull(nextEvent)
            /\ isEventTime(nextEvent) => pc' \in {"dispatch", "stopped"}]_vars
    /\ [][pc # "idle" /\ pc' = "idle" /\ ~isNull(nextEvent') =>
            now' < Deadline(nextEvent')]_vars
    /\ [][pc = "sleep" /\ pc' = "top" => now' - now <= MAX_SLEEP]_vars
    /\ [][pc = "sleep" /\ pc' = "top" /\ ~isNull(nextEvent) =>
            now' <= Deadline(nextEvent)]_vars

(* C18, amended: as claimed, except that a sleep entered with the event      *)
(* pending never ends later than the later of its entry time and the event's *)
(* deadline: entered before the deadline it ends by the deadline, entered    *)
(* after the deadline (which passed during onIdleCpu) it ends at once, later *)
(* than the deadline.                                                        *)
DispatchLateness ==
    /\ [][pc = "top" /\ pc' # "top" /\ ~isNull(nextEvent)
            /\ isEventTime(nextEvent) => pc' \in {"dispatch", "stopped"}]_vars
    /\ [][pc # "idle" /\ pc' = "idle" /\ ~isNull(nextEvent') =>
            now' < Deadline(nextEvent')]_vars
    /\ [][pc = "sleep" /\ pc' = "top" => now' - now <= MAX_SLEEP]_vars
    /\ [][pc = "sleep" /\ pc' = "top" /\ ~isNull(nextEvent) =>
            /\ now < Deadline(nextEvent) => now' <= Deadline(nextEvent)
            /\ now >= Deadline(nextEvent) => now' = now]_vars

\* a sleep entered with a pending event whose deadline has passed already:
\* its wake-up time is the deadline, in the past
DispatchLatenessWitness ==
    /\ pc = "sleep"
    /\ ~isNull(nextEvent)
    /\ now > Deadline(nextEvent)
    /\ sleepUntil = Deadline(nextEvent)

(* C19: eventual dispatch.  An offered event stays in the slot until it is   *)
(* dispatched or replaced; and when eventLoop runs without cancellation and  *)
(* its collaborator's calls return, an event in the slot whose deadline the  *)
(* clock has reached, or reaches by the sleep in progress, is eventually     *)
(* dispatched unless it is replaced first, whether onIdleCpu returns true or *)
(* false.  (calls < MaxCalls: the run has an onIdleCpu call left.)           *)
EventualDispatch ==
    /\ [](pending # 0 =>
            /\ nextEvent.id = pending
            /\ pending \notin overwritten)
    /\ \A p \in 1..MaxOffers :
          (/\ pending = p
           /\ Running
           /\ calls < MaxCalls
           /\ \/ now >= Deadline(nextEvent)
              \/ pc = "sleep" /\ sleepUntil >= Deadline(nextEvent))
            ~> (p \in dispatched \/ p \in overwritten)

\* the first event is dispatched in the third iteration of a run, after an
\* onIdleCpu call that returned true and one that returned false and slept
EventualDispatchWitness ==
    /\ pc = "dispatch"
    /\ runs = 1
    /\ calls = 2
    /\ numShortIntervals = 1
    /\ pending = 1
    /\ overwritten = {}
    /\ ~_doExit

(* C20: slot frame across cancellation.  The slot changes only when queue    *)
(* installs an event and when the dispatched event is cleared; so an event   *)
(* that is in the slot when eventLoop returns stays there (isRoomInBuffer    *)
(* stays false) until it is replaced or dispatched, and a later run whose    *)
(* dispatch check finds its deadline reached dispatches it.                  *)
SlotFrame ==
    /\ [][nextEvent' # nextEvent =>
            \/ /\ offered' = offered + 1
               /\ nextEvent'.id = offered'
            \/ /\ pc = "dispatch" /\ pc' = "idle"
               /\ isNull(nextEvent')]_vars
    /\ [][Running /\ pc' = "stopped" =>
            heldAtReturn' = pending /\ ~_doExit']_vars
    /\ [](heldAtReturn # 0 =>
            /\ ~isRoomInBuffer
            /\ nextEvent.id = heldAtReturn
            /\ pending = heldAtReturn)
    /\ [][pc = "top" /\ pc' # "top" /\ heldAtReturn # 0
            /\ isEventTime(nextEvent) /\ ~_doExit =>
            /\ pc' = "dispatch"
            /\ dispatching'[1].id = heldAtReturn]_vars

\* the second run dispatches the event that the first run, cancelled, left
\* in the slot when it returned
SlotFrameWitness ==
    /\ pc = "dispatch"
    /\ runs = 2
    /\ heldAtReturn # 0
    /\ dispatching[1].id = heldAtReturn
    /\ heldAtReturn \in dispatched

(* C21: cancel before the loop starts.  When exitEventLoop was called while  *)
(* no eventLoop run was executing, the run that follows stays at its loop    *)
(* test, with no onIdleCpu call made, and its only step is to return: that   *)
(* step dispatches nothing, leaves the slot and the clock as they were and   *)
(* clears the exit flag; and the run that is entered after such a return     *)
(* finds the flag clear.                                                     *)
CancelBeforeStart ==
    /\ [](Running /\ exitFrom = "stopped" =>
            /\ pc = "top"
            /\ _doExit
            /\ calls = 0
            /\ dispatching = << >>)
    /\ [][Running /\ exitFrom = "stopped" /\ pc' # pc =>
            /\ pc' = "stopped"
            /\ ~_doExit'
            /\ lastRunEmpty'
            /\ dispatched' = dispatched
            /\ nextEvent' = nextEvent
            /\ now' = now]_vars
    /\ [][pc = "stopped" /\ pc' # pc /\ exitFrom = "none" =>
            pc' = "top" /\ ~_doExit']_vars

\* the run after a run that was cancelled before it started dispatches the
\* event that was in the slot, untouched, while that run returned
CancelBeforeStartWitness ==
    /\ runs = 2
    /\ lastRunEmpty
    /\ pc = "dispatch"
    /\ heldAtReturn # 0
    /\ dispatching[1].id = heldAtReturn
    /\ ~_doExit

====
